---- MODULE Spec2Model ----
(***************************************************************************)
(* Model of ntp-nostd (src/src/lib.rs): the 48-byte NTP header decoder,    *)
(* the enumerated field codecs, the client request builder and the         *)
(* NTP -> Unix timestamp conversion.                                       *)
(*                                                                         *)
(* Number representation.  TLC's integers are 32-bit signed, so a Rust u32 *)
(* is kept as two 16-bit limbs <<hi, lo>> and a u64 as four 16-bit limbs,  *)
(* most significant limb first.  Shifts, ORs and the subtraction are       *)
(* computed on the limbs with the width of the Rust type.                  *)
(***************************************************************************)
EXTENDS Integers, Sequences, FiniteSets

VARIABLES buf,    \* the byte buffer the caller holds (a &[u8])
          resp,   \* outcome of NtpServerResponse::from(buf)
          unix,   \* outcome of headers.get_unix_timestamp()
          arg,    \* the raw value a caller hands to an enumerated field codec
          codec,  \* outcome of the direct call of an enumerated field codec
          last    \* the operation performed last

vars == <<buf, resp, unix, arg, codec, last>>

\* ------------------------------------------------------------------ bounds

\* Largest number of bytes that follow the 48-byte header in an input buffer.
MaxExtra == 2

\* ------------------------------------------------- machine integers (limbs)

\* one limb holds 16 bits
Limb == 2 ^ 16

Max(a, b) == IF a >= b THEN a ELSE b

Min(a, b) == IF a <= b THEN a ELSE b

\* a | b on non-negative integers
RECURSIVE BitOr(_, _)
BitOr(a, b) ==
    IF a = 0 THEN b
    ELSE IF b = 0 THEN a
    ELSE Max(a % 2, b % 2) + 2 * BitOr(a \div 2, b \div 2)

\* a & b on non-negative integers
RECURSIVE BitAnd(_, _)
BitAnd(a, b) ==
    IF a = 0 \/ b = 0 THEN 0
    ELSE Min(a % 2, b % 2) + 2 * BitAnd(a \div 2, b \div 2)

\* u8 >> n
Shr8(b, n) == b \div (2 ^ n)

\* u32::from(u8) and u64::from(u32): zero extension
U32FromU8(b) == <<0, b>>

U64FromU32(x) == <<0, 0, x[1], x[2]>>

\* x << n on a limb sequence of fixed width (bits shifted out are dropped)
ShlLimbs(x, n) ==
    LET q == n \div 16
        r == n % 16
        src(j) == IF j <= Len(x) THEN x[j] ELSE 0
    IN  [i \in 1..Len(x) |->
            ((src(i + q) * (2 ^ r)) % Limb) + (src(i + q + 1) \div (2 ^ (16 - r)))]

\* x | y on limb sequences of the same width
OrLimbs(x, y) == [i \in 1..Len(x) |-> BitOr(x[i], y[i])]

\* u8 as i8: two's complement reinterpretation
AsI8(b) == IF b >= 128 THEN b - 256 ELSE b

\* a - b on u32: the mathematical difference is negative iff underflow is TRUE;
\* wrapped is the difference modulo 2^32
SubU32(a, b) ==
    LET lo     == a[2] - b[2]
        borrow == IF lo < 0 THEN 1 ELSE 0
        hi     == a[1] - b[1] - borrow
    IN  [underflow |-> hi < 0,
         wrapped   |-> <<(hi + Limb) % Limb, (lo + Limb) % Limb>>]

\* ------------------------------------------------------------- constants

UNIX_OFFSET == <<33706, 32384>>   \* 2_208_988_800 = 33706 * 65536 + 32384

NTP_PORT == 123

NTP_VERSION == 1

PacketLen == 48

\* --------------------------------------------------- enumerated field codecs

LIVariants == {"NoLeap", "LastMinute61", "LastMinute59", "UnknownUnsync"}

\* enum LI { NoLeap = 0, ... }: the discriminant of a variant
LI_discriminant(v) ==
    CASE v = "NoLeap"        -> 0
      [] v = "LastMinute61"  -> 1
      [] v = "LastMinute59"  -> 2
      [] v = "UnknownUnsync" -> 3

\* impl From<u8> for LI, with the fatal arm as a panic outcome
LI_from_lenient(value) ==
    CASE value = 0 -> [panic |-> FALSE, variant |-> "NoLeap"]
      [] value = 1 -> [panic |-> FALSE, variant |-> "LastMinute61"]
      [] value = 2 -> [panic |-> FALSE, variant |-> "LastMinute59"]
      [] OTHER     -> [panic |-> FALSE, variant |-> "UnknownUnsync"]

LI_from(value) ==
    CASE value = 0 -> [panic |-> FALSE, variant |-> "NoLeap"]
      [] value = 1 -> [panic |-> FALSE, variant |-> "LastMinute61"]
      [] value = 2 -> [panic |-> FALSE, variant |-> "LastMinute59"]
      [] value = 3 -> [panic |-> FALSE, variant |-> "UnknownUnsync"]
      [] OTHER     -> [panic |-> TRUE,  msg |-> "impossible to be here"]

ModeVariants == {"Reserved", "SymActive", "SymPassive", "Client", "Server",
                 "Broadcast", "NtpControl", "ReservedPrivateUse"}

Mode_discriminant(v) ==
    CASE v = "Reserved"           -> 0
      [] v = "SymActive"          -> 1
      [] v = "SymPassive"         -> 2
      [] v = "Client"             -> 3
      [] v = "Server"             -> 4
      [] v = "Broadcast"          -> 5
      [] v = "NtpControl"         -> 6
      [] v = "ReservedPrivateUse" -> 7

Mode_from(value) ==
    CASE value = 0 -> [panic |-> FALSE, variant |-> "Reserved"]
      [] value = 1 -> [panic |-> FALSE, variant |-> "SymActive"]
      [] value = 2 -> [panic |-> FALSE, variant |-> "SymPassive"]
      [] value = 3 -> [panic |-> FALSE, variant |-> "Client"]
      [] value = 4 -> [panic |-> FALSE, variant |-> "Server"]
      [] value = 5 -> [panic |-> FALSE, variant |-> "Broadcast"]
      [] value = 6 -> [panic |-> FALSE, variant |-> "NtpControl"]
      [] value = 7 -> [panic |-> FALSE, variant |-> "ReservedPrivateUse"]
      [] OTHER     -> [panic |-> TRUE,  msg |-> "impossible"]

StratumVariants == {"UnspecifiedInvalid", "PrimaryServer", "SecondaryServer",
                    "Unsynchronized", "Reserved"}

Stratum_from_exclusive(value) ==
    CASE value = 0       -> "UnspecifiedInvalid"
      [] value = 1       -> "PrimaryServer"
      [] value \in 2..14 -> "SecondaryServer"
      [] value = 16      -> "Unsynchronized"
      [] OTHER           -> "Reserved"

Stratum_from(value) ==
    CASE value = 0       -> "UnspecifiedInvalid"
      [] value = 1       -> "PrimaryServer"
      [] value \in 2..15 -> "SecondaryServer"
      [] value = 16      -> "Unsynchronized"
      [] OTHER           -> "Reserved"

KISS_CODE_DENY == <<68, 69, 78, 89>>

KISS_CODE_RSTR == <<82, 83, 84, 82>>

KISS_CODE_RATE == <<82, 65, 84, 69>>

KissCodes_from_no_rate(value) ==
    CASE value = <<65, 67, 83, 84>> -> "UnicastServer"
      [] value = <<65, 85, 84, 72>> -> "AuthFailed"
      [] value = <<65, 85, 84, 79>> -> "AutokeyFailed"
      [] value = <<66, 67, 83, 84>> -> "BroadcastServer"
      [] value = <<67, 82, 89, 80>> -> "CryptoIdAuthFail"
      [] value = <<68, 69, 78, 89>> -> "AccessDenied"
      [] value = <<68, 82, 79, 80>> -> "LostPeerInSymmetricMode"
      [] value = <<82, 83, 84, 82>> -> "AccessRestricted"
      [] value = <<73, 78, 73, 84>> -> "Initializing"
      [] value = <<77, 67, 83, 84>> -> "DynamicallyDiscoveredServer"
      [] value = <<78, 75, 69, 89>> -> "NoKey"
      [] value = <<82, 77, 79, 84>> -> "RemoteAssocAlteration"
      [] value = <<83, 84, 69, 80>> -> "StepTimeChange"
      [] OTHER                      -> "UnknownKissCode"

\* impl From<&[u8; 4]> for KissCodes; the byte strings are ASCII
KissCodes_from(value) ==
    CASE value = <<65, 67, 83, 84>> -> "UnicastServer"                \* ACST
      [] value = <<65, 85, 84, 72>> -> "AuthFailed"                   \* AUTH
      [] value = <<65, 85, 84, 79>> -> "AutokeyFailed"                \* AUTO
      [] value = <<66, 67, 83, 84>> -> "BroadcastServer"              \* BCST
      [] value = <<67, 82, 89, 80>> -> "CryptoIdAuthFail"             \* CRYP
      [] value = <<68, 69, 78, 89>> -> "AccessDenied"                 \* DENY
      [] value = <<68, 82, 79, 80>> -> "LostPeerInSymmetricMode"      \* DROP
      [] value = <<82, 83, 84, 82>> -> "AccessRestricted"             \* RSTR
      [] value = <<73, 78, 73, 84>> -> "Initializing"                 \* INIT
      [] value = <<77, 67, 83, 84>> -> "DynamicallyDiscoveredServer"  \* MCST
      [] value = <<78, 75, 69, 89>> -> "NoKey"                        \* NKEY
      [] value = <<82, 65, 84, 69>> -> "RateExceeded"                 \* RATE
      [] value = <<82, 77, 79, 84>> -> "RemoteAssocAlteration"        \* RMOT
      [] value = <<83, 84, 69, 80>> -> "StepTimeChange"               \* STEP
      [] OTHER                      -> "UnknownKissCode"

\* ------------------------------------------------------ packet header decoder

\* core::slice::Iter::next over value, pos bytes already consumed
iter_next_or_zero(value, pos) ==
    IF pos < Len(value)
    THEN [some |-> TRUE, val |-> value[pos + 1], pos |-> pos + 1]
    ELSE [some |-> TRUE, val |-> 0, pos |-> pos]

iter_next(value, pos) ==
    IF pos < Len(value)
    THEN [some |-> TRUE,  val |-> value[pos + 1], pos |-> pos + 1]
    ELSE [some |-> FALSE, pos |-> pos]

\* Option::unwrap on None
UnwrapPanic(pos) ==
    [status |-> "panic", msg |-> "called Option::unwrap() on a None value", reads |-> pos]

combine_u8s_le(value, pos) ==
    LET n1 == iter_next(value, pos)
        n2 == iter_next(value, n1.pos)
        n3 == iter_next(value, n2.pos)
        n4 == iter_next(value, n3.pos)
    IN  IF ~n1.some \/ ~n2.some \/ ~n3.some \/ ~n4.some
        THEN [panic |-> TRUE, pos |-> Len(value)]
        ELSE [panic |-> FALSE, pos |-> n4.pos,
              val |-> OrLimbs(OrLimbs(OrLimbs(ShlLimbs(U32FromU8(n4.val), 24),
                                              ShlLimbs(U32FromU8(n3.val), 16)),
                                      ShlLimbs(U32FromU8(n2.val), 8)),
                              U32FromU8(n1.val))]

\* fn combine_u8s: four reads, each unwrapped, then the shifts and ORs on u32
combine_u8s(value, pos) ==
    LET n1 == iter_next(value, pos)
        n2 == iter_next(value, n1.pos)
        n3 == iter_next(value, n2.pos)
        n4 == iter_next(value, n3.pos)
    IN  IF ~n1.some THEN [panic |-> TRUE, pos |-> n1.pos]
        ELSE IF ~n2.some THEN [panic |-> TRUE, pos |-> n2.pos]
        ELSE IF ~n3.some THEN [panic |-> TRUE, pos |-> n3.pos]
        ELSE IF ~n4.some THEN [panic |-> TRUE, pos |-> n4.pos]
        ELSE [panic |-> FALSE, pos |-> n4.pos,
              val |-> OrLimbs(OrLimbs(OrLimbs(ShlLimbs(U32FromU8(n1.val), 24),
                                              ShlLimbs(U32FromU8(n2.val), 16)),
                                      ShlLimbs(U32FromU8(n3.val), 8)),
                              U32FromU8(n4.val))]

\* (u64::from(hi) << 32) | u64::from(lo)
combine_u64(hi, lo) == OrLimbs(ShlLimbs(U64FromU32(hi), 32), U64FromU32(lo))

\* (li_vn_mode >> 6) & 0b11
extract_li(li_vn_mode) == BitAnd(Shr8(li_vn_mode, 6), 3)

extract_version_shift2(li_vn_mode) == BitAnd(Shr8(li_vn_mode, 2), 7)

\* (li_vn_mode >> 3) & 0b111
extract_version(li_vn_mode) == BitAnd(Shr8(li_vn_mode, 3), 7)

extract_mode_wide(li_vn_mode) == BitAnd(li_vn_mode, 15)

\* (li_vn_mode) & 0b111
extract_mode(li_vn_mode) == BitAnd(li_vn_mode, 7)

\* impl From<&[u8]> for NtpServerResponse: the outcome is the response, or the
\* panic that the first failing step raises (no value is returned then)
NtpServerResponse_from(value) ==
    LET n0      == iter_next(value, 0)
        li      == LI_from(extract_li(n0.val))
        version == extract_version(n0.val)
        mode    == Mode_from(extract_mode(n0.val))
        n1      == iter_next(value, n0.pos)
        n2      == iter_next(value, n1.pos)
        n3      == iter_next(value, n2.pos)
        c_root_delay      == combine_u8s(value, n3.pos)
        c_root_dispersion == combine_u8s(value, c_root_delay.pos)
        c_ref_id          == combine_u8s(value, c_root_dispersion.pos)
        c_ref_1           == combine_u8s(value, c_ref_id.pos)
        c_ref_2           == combine_u8s(value, c_ref_1.pos)
        c_origin_1        == combine_u8s(value, c_ref_2.pos)
        c_origin_2        == combine_u8s(value, c_origin_1.pos)
        c_rx_1            == combine_u8s(value, c_origin_2.pos)
        c_rx_2            == combine_u8s(value, c_rx_1.pos)
        c_tx_seconds      == combine_u8s(value, c_rx_2.pos)
        c_tx_fraction     == combine_u8s(value, c_tx_seconds.pos)
    IN  IF ~n0.some THEN UnwrapPanic(n0.pos)
        ELSE IF li.panic THEN [status |-> "panic", msg |-> li.msg, reads |-> n0.pos]
        ELSE IF mode.panic THEN [status |-> "panic", msg |-> mode.msg, reads |-> n0.pos]
        ELSE IF ~n1.some THEN UnwrapPanic(n1.pos)
        ELSE IF ~n2.some THEN UnwrapPanic(n2.pos)
        ELSE IF ~n3.some THEN UnwrapPanic(n3.pos)
        ELSE IF c_root_delay.panic THEN UnwrapPanic(c_root_delay.pos)
        ELSE IF c_root_dispersion.panic THEN UnwrapPanic(c_root_dispersion.pos)
        ELSE IF c_ref_id.panic THEN UnwrapPanic(c_ref_id.pos)
        ELSE IF c_ref_1.panic THEN UnwrapPanic(c_ref_1.pos)
        ELSE IF c_ref_2.panic THEN UnwrapPanic(c_ref_2.pos)
        ELSE IF c_origin_1.panic THEN UnwrapPanic(c_origin_1.pos)
        ELSE IF c_origin_2.panic THEN UnwrapPanic(c_origin_2.pos)
        ELSE IF c_rx_1.panic THEN UnwrapPanic(c_rx_1.pos)
        ELSE IF c_rx_2.panic THEN UnwrapPanic(c_rx_2.pos)
        ELSE IF c_tx_seconds.panic THEN UnwrapPanic(c_tx_seconds.pos)
        ELSE IF c_tx_fraction.panic THEN UnwrapPanic(c_tx_fraction.pos)
        ELSE [status |-> "ok",
              reads  |-> c_tx_fraction.pos,
              headers |->
                [li               |-> li.variant,
                 vn               |-> version,
                 mode             |-> mode.variant,
                 stratum          |-> Stratum_from(n1.val),
                 poll             |-> AsI8(n2.val),
                 precision        |-> AsI8(n3.val),
                 root_delay       |-> c_root_delay.val,
                 root_dispersion  |-> c_root_dispersion.val,
                 ref_id           |-> c_ref_id.val,
                 ref_time         |-> combine_u64(c_ref_1.val, c_ref_2.val),
                 origin_time      |-> combine_u64(c_origin_1.val, c_origin_2.val),
                 rx_time          |-> combine_u64(c_rx_1.val, c_rx_2.val),
                 tx_time_seconds  |-> c_tx_seconds.val,
                 tx_time_fraction |-> c_tx_fraction.val,
                 dst_time         |-> <<0, 0, 0, 0>>,
                 key_id           |-> <<0, 0>>,
                 msg_dgst         |-> <<0, 0, 0, 0, 0, 0, 0, 0>>],
              extension_fields |-> "None"]

\* ------------------------------------------------------ client request builder

get_client_request_v3 ==
    [[i \in 1..PacketLen |-> 0] EXCEPT ![1] = 27]

\* [0_u8; 48] with buff[0] = 0b00100011 and the explicit zero stores
get_client_request ==
    [[i \in 1..PacketLen |-> 0] EXCEPT
        ![1] = 35, ![2] = 0, ![3] = 0, ![4] = 0,
        ![13] = 0, ![14] = 0, ![15] = 0, ![16] = 0]

\* -------------------------------------------------------- timestamp conversion

\* self.tx_time_seconds - UNIX_OFFSET on u32.  An underflow panics in a build
\* with overflow checks (the debug profile) and wraps modulo 2^32 in a build
\* without them (the release profile).
get_unix_timestamp(headers, overflow_checks) ==
    LET d == SubU32(headers.tx_time_seconds, UNIX_OFFSET)
    IN  IF d.underflow /\ overflow_checks
        THEN [status |-> "panic", msg |-> "attempt to subtract with overflow"]
        ELSE [status |-> "ok", value |-> d.wrapped]

\* ------------------------------------------------------------------ inputs

Byte == 0..255

\* the two packets of the repository's tests
TestFromU8 ==
    <<36, 3, 0, 232, 0, 0, 5, 139, 0, 0, 0, 39, 10, 72, 8, 222,
      232, 139, 229, 188, 150, 26, 5, 122, 0, 0, 0, 0, 0, 0, 0, 0,
      232, 139, 229, 209, 125, 186, 194, 223, 232, 139, 229, 209, 125, 239, 153, 206>>

TestTxTime ==
    <<36, 2, 0, 237, 0, 0, 0, 13, 0, 0, 0, 2, 10, 1, 105, 4,
      232, 140, 230, 172, 44, 61, 185, 98, 0, 0, 0, 0, 0, 0, 0, 0,
      232, 140, 230, 180, 185, 134, 172, 167, 232, 140, 230, 180, 185, 136, 186, 218>>

\* a packet whose transmit seconds are exactly the Unix epoch, 0x83AA7E80
EpochPacket ==
    [i \in 1..PacketLen |->
        CASE i = 1  -> 28
          [] i = 2  -> 16
          [] i = 41 -> 131
          [] i = 42 -> 170
          [] i = 43 -> 126
          [] i = 44 -> 128
          [] OTHER  -> 255]

BasePackets == {TestFromU8, TestTxTime, EpochPacket}

\* byte values written over one position of a base packet
ByteSamples == {0, 1, 2, 15, 16, 17, 126, 127, 128, 129, 130, 131, 132, 254, 255}

ExtraBytes == {0, 255}

Tails == UNION {[1..n -> ExtraBytes] : n \in 0..MaxExtra}

\* the buffers handed to the decoder: every base packet with one byte replaced
\* (byte 0 by every value), cut short to every length below 48, or followed by
\* up to MaxExtra further bytes
Inputs ==
    {[b EXCEPT ![1] = v] : b \in BasePackets, v \in Byte}
    \cup {[b EXCEPT ![p] = v] : b \in BasePackets, p \in 2..PacketLen, v \in ByteSamples}
    \cup {SubSeq(b, 1, n) : b \in BasePackets, n \in 0..(PacketLen - 1)}
    \cup {b \o t : b \in BasePackets, t \in Tails}

\* the 14 byte strings the KissCodes match names, and two it does not
KissSeeds ==
    {<<65, 67, 83, 84>>, <<65, 85, 84, 72>>, <<65, 85, 84, 79>>, <<66, 67, 83, 84>>,
     <<67, 82, 89, 80>>, <<68, 69, 78, 89>>, <<68, 82, 79, 80>>, <<82, 83, 84, 82>>,
     <<73, 78, 73, 84>>, <<77, 67, 83, 84>>, <<78, 75, 69, 89>>, <<82, 65, 84, 69>>,
     <<82, 77, 79, 84>>, <<83, 84, 69, 80>>,
     <<0, 0, 0, 0>>, <<100, 101, 110, 121>>}

\* the [u8; 4] values handed to the KissCodes codec: a seed with one byte replaced
KissInputs == {[k EXCEPT ![p] = v] : k \in KissSeeds, p \in 1..4, v \in Byte}

\* ------------------------------------------------------------ state machine

NotCalled == [status |-> "none"]

Alive == resp.status # "panic" /\ unix.status # "panic" /\ codec.status # "panic"

Init ==
    /\ buf \in Inputs
    /\ resp = NotCalled
    /\ unix = NotCalled
    /\ arg = [ty |-> "none"]
    /\ codec = NotCalled
    /\ last = "none"

\* let response = NtpServerResponse::from(buf)
From ==
    /\ Alive
    /\ resp.status = "none"
    /\ resp' = NtpServerResponse_from(buf)
    /\ last' = "from"
    /\ UNCHANGED <<buf, unix, arg, codec>>

\* response.headers.get_unix_timestamp(); the headers are moved into the call
GetUnixTimestamp(overflow_checks) ==
    /\ Alive
    /\ resp.status = "ok"
    /\ unix.status = "none"
    /\ unix' = get_unix_timestamp(resp.headers, overflow_checks)
    /\ last' = "get_unix_timestamp"
    /\ UNCHANGED <<buf, resp, arg, codec>>

\* buf = get_client_request()
GetClientRequest ==
    /\ Alive
    /\ last # "get_client_request"
    /\ buf' = get_client_request
    /\ resp' = NotCalled
    /\ unix' = NotCalled
    /\ last' = "get_client_request"
    /\ UNCHANGED <<arg, codec>>

Next ==
    \/ From
    \/ \E overflow_checks \in BOOLEAN : GetUnixTimestamp(overflow_checks)
    \/ GetClientRequest

Spec == Init /\ [][Next]_vars

\* ---- direct calls of the enumerated field codecs

\* a u8 for LI, Mode and Stratum, a [u8; 4] for KissCodes
IsCodecArg(a) ==
    \/ a \in {[ty |-> "u8", v |-> b] : b \in Byte}
    \/ a \in {[ty |-> "[u8; 4]", v |-> k] : k \in KissInputs}

InitCodec ==
    /\ buf = <<>>
    /\ resp = NotCalled
    /\ unix = NotCalled
    /\ IsCodecArg(arg)
    /\ codec = NotCalled
    /\ last = "none"

CodecOutcome(op, input, r) ==
    IF r.panic
    THEN [status |-> "panic", op |-> op, input |-> input, msg |-> r.msg]
    ELSE [status |-> "ok", op |-> op, input |-> input, variant |-> r.variant]

\* LI::from(arg)
LIFrom ==
    /\ Alive
    /\ arg.ty = "u8"
    /\ codec.status = "none"
    /\ codec' = CodecOutcome("LI", arg.v, LI_from(arg.v))
    /\ last' = "LI::from"
    /\ UNCHANGED <<buf, resp, unix, arg>>

\* Mode::from(arg)
ModeFrom ==
    /\ Alive
    /\ arg.ty = "u8"
    /\ codec.status = "none"
    /\ codec' = CodecOutcome("Mode", arg.v, Mode_from(arg.v))
    /\ last' = "Mode::from"
    /\ UNCHANGED <<buf, resp, unix, arg>>

\* Stratum::from(arg)
StratumFrom ==
    /\ Alive
    /\ arg.ty = "u8"
    /\ codec.status = "none"
    /\ codec' = CodecOutcome("Stratum", arg.v, [panic |-> FALSE, variant |-> Stratum_from(arg.v)])
    /\ last' = "Stratum::from"
    /\ UNCHANGED <<buf, resp, unix, arg>>

\* KissCodes::from(&arg)
KissCodesFrom ==
    /\ Alive
    /\ arg.ty = "[u8; 4]"
    /\ codec.status = "none"
    /\ codec' = CodecOutcome("KissCodes", arg.v, [panic |-> FALSE, variant |-> KissCodes_from(arg.v)])
    /\ last' = "KissCodes::from"
    /\ UNCHANGED <<buf, resp, unix, arg>>

NextCodec ==
    \/ LIFrom
    \/ ModeFrom
    \/ StratumFrom
    \/ KissCodesFrom

SpecCodec == InitCodec /\ [][NextCodec]_vars

\* ------------------------------------------------------------------ claims

\* big-endian u32 of the four bytes at 0-based offsets off .. off+3
BE32(b, off) == <<b[off + 1] * 256 + b[off + 2], b[off + 3] * 256 + b[off + 4]>>

\* (high << 32) | low of the two big-endian u32 at off and off+4
BE64(b, off) == BE32(b, off) \o BE32(b, off + 4)

\* a byte read as a signed 8-bit two's complement number
Signed8(x) == ((x + 128) % 256) - 128

Decoded == resp.status # "none"

\* C1: for every buffer of at least 48 bytes the decoder yields stratum = Stratum
\* codec of byte 1, poll and precision = bytes 2 and 3 as signed 8-bit numbers,
\* root_delay / root_dispersion / ref_id = the big-endian u32 of bytes 4-7 / 8-11 /
\* 12-15, ref_time / origin_time / rx_time = (high << 32) | low of the big-endian
\* u32 pairs at bytes 16-23 / 24-31 / 32-39, tx_time_seconds / tx_time_fraction =
\* the big-endian u32 of bytes 40-43 / 44-47, and exactly 48 bytes are consumed.
C1_DecodeFields ==
    (Decoded /\ Len(buf) >= 48) =>
        /\ resp.status = "ok"
        /\ resp.reads = 48
        /\ resp.headers.stratum = Stratum_from(buf[2])
        /\ resp.headers.poll = Signed8(buf[3])
        /\ resp.headers.precision = Signed8(buf[4])
        /\ resp.headers.root_delay = BE32(buf, 4)
        /\ resp.headers.root_dispersion = BE32(buf, 8)
        /\ resp.headers.ref_id = BE32(buf, 12)
        /\ resp.headers.ref_time = BE64(buf, 16)
        /\ resp.headers.origin_time = BE64(buf, 24)
        /\ resp.headers.rx_time = BE64(buf, 32)
        /\ resp.headers.tx_time_seconds = BE32(buf, 40)
        /\ resp.headers.tx_time_fraction = BE32(buf, 44)

\* the packet of tests::test_from_u8 decoded to the values the test expects:
\* precision -24, root_delay 1419, ref_id 172493022, tx_time_seconds 3901482449
C1_Witness ==
    /\ buf = TestFromU8
    /\ resp.status = "ok"
    /\ resp.headers.stratum = "SecondaryServer"
    /\ resp.headers.precision = -24
    /\ resp.headers.root_delay = <<0, 1419>>
    /\ resp.headers.ref_id = <<2632, 2270>>
    /\ resp.headers.tx_time_seconds = <<59531, 58833>>

\* C2: for every value of byte 0 the decoded li, version and mode re-encode as
\* (li << 6) | (version << 3) | mode to exactly byte 0, with li in 0..3,
\* version in 0..7 and mode in 0..7.
C2_FirstByteRoundTrip ==
    resp.status = "ok" =>
        LET li == LI_discriminant(resp.headers.li)
            vn == resp.headers.vn
            md == Mode_discriminant(resp.headers.mode)
        IN  /\ li \in 0..3
            /\ vn \in 0..7
            /\ md \in 0..7
            /\ li * 64 + vn * 8 + md = buf[1]

\* byte 0 = 0b10110101 decoded: li 2, version 6, mode 5
C2_Witness ==
    /\ resp.status = "ok"
    /\ buf[1] = 181
    /\ resp.headers.li = "LastMinute59"
    /\ resp.headers.vn = 6
    /\ resp.headers.mode = "Broadcast"

\* a >= b on u32
GeU32(a, b) == a[1] > b[1] \/ (a[1] = b[1] /\ a[2] >= b[2])

\* a + b = c on u32 without carry out
SumIsU32(a, b, c) ==
    LET lo == a[2] + b[2]
        hi == a[1] + b[1] + (lo \div 65536)
    IN  hi < 65536 /\ c = <<hi, lo % 65536>>

\* C3: for tx_time_seconds >= 2,208,988,800 get_unix_timestamp returns exactly
\* tx_time_seconds - 2,208,988,800; for every smaller value the operation fails
\* rather than returning a value wrapped modulo 2^32.
C3_UnixTimestampOrFail ==
    unix.status # "none" =>
        IF GeU32(resp.headers.tx_time_seconds, <<33706, 32384>>)
        THEN /\ unix.status = "ok"
             /\ SumIsU32(unix.value, <<33706, 32384>>, resp.headers.tx_time_seconds)
        ELSE unix.status = "panic"

\* C4: for every buffer of length 0..47 the decoder ends in a fatal failure, the
\* cursor exhaustion on the first read past the end, and no response exists: no
\* header structure is visible and nothing can be converted.
C4_ShortBufferFails ==
    (Decoded /\ Len(buf) < 48) =>
        /\ resp.status = "panic"
        /\ resp.msg = "called Option::unwrap() on a None value"
        /\ resp.reads = Len(buf)
        /\ DOMAIN resp = {"status", "msg", "reads"}
        /\ unix.status = "none"

\* a 47-byte buffer, one byte short, has been handed to the decoder
C4_Witness ==
    /\ Len(buf) = 47
    /\ Decoded
    /\ resp.status = "panic"

\* C5: for every buffer of at least 48 bytes the decoder completes without a fatal
\* failure (the panic arms of the LI and Mode codecs are not reached), and the
\* result is the one of the first 48 bytes alone.
C5_LongBufferDecodes ==
    (Decoded /\ Len(buf) >= 48) =>
        /\ resp.status = "ok"
        /\ resp = NtpServerResponse_from(SubSeq(buf, 1, 48))

\* a buffer with a non-zero byte after the 48-byte header was decoded
C5_Witness ==
    /\ Decoded
    /\ Len(buf) > 48
    /\ buf[49] = 255
    /\ resp.status = "ok"

RequestShape(b) ==
    /\ Len(b) = 48
    /\ b[1] = 35
    /\ \A i \in 2..48 : b[i] = 0

\* C7: get_client_request returns exactly 48 bytes, byte 0 = 0b00100011 and bytes
\* 1..47 zero; decoding that buffer yields li = NoLeap, version = 4, mode = Client
\* and origin_time = 0.
C7_ClientRequest ==
    /\ last = "get_client_request" => RequestShape(buf)
    /\ (RequestShape(buf) /\ Decoded) =>
          /\ resp.status = "ok"
          /\ resp.headers.li = "NoLeap"
          /\ resp.headers.vn = 4
          /\ resp.headers.mode = "Client"
          /\ resp.headers.origin_time = <<0, 0, 0, 0>>

\* the request was built and then decoded
C7_Witness ==
    /\ last = "from"
    /\ RequestShape(buf)
    /\ resp.status = "ok"

\* C10: the version that get_client_request encodes in bits 5-3 of byte 0 is the
\* constant NTP_VERSION: decoding the client request yields version = NTP_VERSION.
C10_RequestVersionIsConstant ==
    (RequestShape(buf) /\ resp.status = "ok") => resp.headers.vn = NTP_VERSION

CodecCalled(op) == codec.status # "none" /\ codec.op = op

\* C6: the Stratum codec is total over 0..255: 0 -> UnspecifiedInvalid,
\* 1 -> PrimaryServer, 2..15 -> SecondaryServer, 16 -> Unsynchronized,
\* 17..255 -> Reserved.
C6_StratumTotal ==
    CodecCalled("Stratum") =>
        /\ codec.status = "ok"
        /\ codec.input = 0 => codec.variant = "UnspecifiedInvalid"
        /\ codec.input = 1 => codec.variant = "PrimaryServer"
        /\ (2 <= codec.input /\ codec.input <= 15) => codec.variant = "SecondaryServer"
        /\ codec.input = 16 => codec.variant = "Unsynchronized"
        /\ (17 <= codec.input /\ codec.input <= 255) => codec.variant = "Reserved"

\* the upper boundary of the secondary-server range went through the codec
C6_Witness ==
    /\ CodecCalled("Stratum")
    /\ codec.input = 15
    /\ codec.variant = "SecondaryServer"

\* the 14 known kiss codes with their variants
KnownKissCodes ==
    {<<<<65, 67, 83, 84>>, "UnicastServer">>,
     <<<<65, 85, 84, 72>>, "AuthFailed">>,
     <<<<65, 85, 84, 79>>, "AutokeyFailed">>,
     <<<<66, 67, 83, 84>>, "BroadcastServer">>,
     <<<<67, 82, 89, 80>>, "CryptoIdAuthFail">>,
     <<<<68, 69, 78, 89>>, "AccessDenied">>,
     <<<<68, 82, 79, 80>>, "LostPeerInSymmetricMode">>,
     <<<<82, 83, 84, 82>>, "AccessRestricted">>,
     <<<<73, 78, 73, 84>>, "Initializing">>,
     <<<<77, 67, 83, 84>>, "DynamicallyDiscoveredServer">>,
     <<<<78, 75, 69, 89>>, "NoKey">>,
     <<<<82, 65, 84, 69>>, "RateExceeded">>,
     <<<<82, 77, 79, 84>>, "RemoteAssocAlteration">>,
     <<<<83, 84, 69, 80>>, "StepTimeChange">>}

\* C8: the KissCodes codec is total over 4-byte sequences: each of the 14 known
\* ASCII codes maps to its own variant, the 14 variants are pairwise distinct,
\* and every other sequence maps to UnknownKissCode.
C8_KissCodesTotal ==
    CodecCalled("KissCodes") =>
        /\ codec.status = "ok"
        /\ \A p \in KnownKissCodes : codec.input = p[1] => codec.variant = p[2]
        /\ (\A p \in KnownKissCodes : codec.input # p[1]) => codec.variant = "UnknownKissCode"
        /\ \A p, q \in KnownKissCodes :
              p[1] # q[1] =>
                 /\ KissCodes_from(p[1]) # KissCodes_from(q[1])
                 /\ KissCodes_from(p[1]) # "UnknownKissCode"

\* RATE went through the codec
C8_Witness ==
    /\ CodecCalled("KissCodes")
    /\ codec.input = KISS_CODE_RATE
    /\ codec.variant = "RateExceeded"

\* C9: for v in 0..3 the LI codec returns the variant with discriminant v, for v
\* in 0..7 the Mode codec returns the variant with discriminant v; for every other
\* u8 value the codec fails with a fatal assertion and returns no variant.
C9_LiModeCodecs ==
    /\ CodecCalled("LI") =>
          IF codec.input \in 0..3
          THEN codec.status = "ok" /\ LI_discriminant(codec.variant) = codec.input
          ELSE codec.status = "panic" /\ "variant" \notin DOMAIN codec
    /\ CodecCalled("Mode") =>
          IF codec.input \in 0..7
          THEN codec.status = "ok" /\ Mode_discriminant(codec.variant) = codec.input
          ELSE codec.status = "panic" /\ "variant" \notin DOMAIN codec

\* the first value outside the LI range went through the LI codec
C9_Witness ==
    /\ CodecCalled("LI")
    /\ codec.input = 4
    /\ codec.status = "panic"

====
